---- MODULE Spec2Model ----
(***************************************************************************)
(* Order-intake cloud function: the payload validator                      *)
(* (src/utils/order_utils.py) and the HTTP handler (src/main.py).          *)
(*                                                                         *)
(* Decoded JSON values are tagged records.  Numbers are decimal fixed      *)
(* point: an int carries its value n, a float carries m, its value in      *)
(* thousandths (1.5 is JFloat(1500)).  Python's bool is a subclass of int, *)
(* which the isinstance tests below reproduce.                             *)
(***************************************************************************)
EXTENDS Integers, Sequences, FiniteSets, TLC

VARIABLES
    data0,      \* the payload as the caller built it (validator entry point)
    data,       \* the same payload object, as it is now
    results,    \* outcomes of the validate_payload calls made on data
    request,    \* the HTTP request delivered to order_event
    response,   \* what order_event produced for it
    dbSaves     \* number of simulate_db_save calls made by order_event

vars == <<data0, data, results, request, response, dbSaves>>

----------------------------------------------------------------------------
(* Bounds *)

MaxItems == 2

MaxCalls == 2

----------------------------------------------------------------------------
(* Decoded JSON values *)

JNull == [t |-> "null"]

JBool(b) == [t |-> "bool", b |-> b]

JInt(n) == [t |-> "int", n |-> n]

JFloat(m) == [t |-> "float", m |-> m]

JStr(s) == [t |-> "str", s |-> s]

JList(l) == [t |-> "list", l |-> l]

JDict(d) == [t |-> "dict", d |-> d]

----------------------------------------------------------------------------
(* Python built-ins used by the code *)

\* isinstance(v, int): bool is a subclass of int
IsInstanceInt(v) == v.t \in {"int", "bool"}

\* isinstance(v, (int, float))
IsInstanceNumber(v) == v.t \in {"int", "bool", "float"}

IsInstanceList(v) == v.t = "list"

IsInstanceDict(v) == v.t = "dict"

IsInstanceStr(v) == v.t = "str"

\* type(v).__name__
PyTypeName(v) ==
    CASE v.t = "null" -> "NoneType"
      [] v.t = "bool" -> "bool"
      [] v.t = "int" -> "int"
      [] v.t = "float" -> "float"
      [] v.t = "str" -> "str"
      [] v.t = "list" -> "list"
      [] v.t = "dict" -> "dict"

\* numeric value of a number, in thousandths (True is 1, False is 0)
Milli(v) ==
    CASE v.t = "int" -> v.n * 1000
      [] v.t = "bool" -> (IF v.b THEN 1000 ELSE 0)
      [] v.t = "float" -> v.m

\* bool(v), as used by the test: not data
PyTruthy(v) ==
    CASE v.t = "null" -> FALSE
      [] v.t = "bool" -> v.b
      [] v.t = "int" -> v.n # 0
      [] v.t = "float" -> v.m # 0
      [] v.t = "str" -> v.s # ""
      [] v.t = "list" -> Len(v.l) # 0
      [] v.t = "dict" -> DOMAIN v.d # {}

\* (key in c) raises TypeError when c is not a container
InRaises(c) == c.t \in {"null", "bool", "int", "float"}

\* (key in c) for a dict (its keys) or a list (its elements); a str operand
\* (substring test) is outside the inputs of this model
PyIn(key, c) ==
    CASE c.t = "dict" -> key \in DOMAIN c.d
      [] c.t = "list" -> \E i \in 1..Len(c.l) : c.l[i] = JStr(key)

\* c[key] with a str key raises TypeError unless c is a dict
GetItemRaises(c) == c.t # "dict"

\* the grave accent that the messages put around a field name
Backtick == SubSeq("`'", 1, 1)

Digit == <<"0", "1", "2", "3", "4", "5", "6", "7", "8", "9">>

RECURSIVE IntToStr(_)
\* str(n) for n >= 0, as the f-strings format an index
IntToStr(n) ==
    IF n < 10 THEN Digit[n + 1]
    ELSE IntToStr(n \div 10) \o Digit[(n % 10) + 1]

RECURSIVE PyReprTail(_)
PyReprTail(names) ==
    IF names = <<>> THEN ""
    ELSE ", '" \o Head(names) \o "'" \o PyReprTail(Tail(names))

\* repr of a list of str, as f"{missing}" prints it: ['a', 'b']
PyReprList(names) ==
    IF names = <<>> THEN "[]"
    ELSE "['" \o Head(names) \o "'" \o PyReprTail(Tail(names)) \o "]"

\* round(x, 2) on thousandths: nearest hundredth, ties to even
Round2(m) ==
    LET q == m \div 10
        r == m % 10
    IN  IF r < 5 THEN q * 10
        ELSE IF r > 5 THEN (q + 1) * 10
        ELSE IF q % 2 = 0 THEN q * 10 ELSE (q + 1) * 10

\* f"{x:.2f}" of a value in thousandths
Fmt2f(m) ==
    LET r == Round2(m)
        a == IF r < 0 THEN 0 - r ELSE r
        frac == (a % 1000) \div 10
    IN  (IF r < 0 THEN "-" ELSE "") \o IntToStr(a \div 1000) \o "."
            \o Digit[(frac \div 10) + 1] \o Digit[(frac % 10) + 1]

\* f"{x: .2f}": the space flag puts a blank where a plus sign would go
FmtSpace2f(m) == (IF Round2(m) < 0 THEN "" ELSE " ") \o Fmt2f(m)

RECURSIVE Repeat(_, _)
Repeat(l, n) == IF n <= 0 THEN <<>> ELSE l \o Repeat(l, n - 1)

\* a * b where a passed isinstance(a, int) and b is a list: repetition
PyMul(a, b) == JList(Repeat(b.l, Milli(a) \div 1000))

TypeErrorValue == [t |-> "TypeError"]

\* a + b: defined on two numbers; int + list raises TypeError
PyAdd(a, b) ==
    IF a.t = "TypeError" THEN a
    ELSE IF IsInstanceNumber(a) /\ IsInstanceNumber(b)
         THEN (IF a.t = "float" \/ b.t = "float"
               THEN JFloat(Milli(a) + Milli(b))
               ELSE JInt((Milli(a) + Milli(b)) \div 1000))
         ELSE TypeErrorValue

RECURSIVE PySumFrom(_, _)
PySumFrom(acc, terms) ==
    IF terms = <<>> THEN acc
    ELSE PySumFrom(PyAdd(acc, Head(terms)), Tail(terms))

\* sum(terms): starts from the int 0
PySum(terms) == PySumFrom(JInt(0), terms)

----------------------------------------------------------------------------
(* validate_payload *)

Returned == [kind |-> "return", exc |-> "", msg |-> ""]

Raise(exc, msg) == [kind |-> "raise", exc |-> exc, msg |-> msg]

\* internal: the check passed, go on with the next statement
Pass == [kind |-> "pass", exc |-> "", msg |-> ""]

NotIterable(v) ==
    Raise("TypeError", "argument of type '" \o PyTypeName(v) \o "' is not iterable")

BadIndex(v) ==
    Raise("TypeError", PyTypeName(v) \o " indices must be integers or slices, not str")

required ==
    <<"order_id", "customer_id", "items", "order_date",
      "shipping_address", "payment_method", "total_amount">>

ItemKeys == <<"sku", "name", "qty", "unit_price">>

AddressFields == <<"line1", "city", "state", "postal_code", "country">>

\* a mutant of Missing: only the first absent field is reported
MissingFirstOnly(d) ==
    LET all == SelectSeq(required, LAMBDA f : ~PyIn(f, d))
    IN  IF all = <<>> THEN <<>> ELSE <<Head(all)>>

\* missing = [f for f in required if f not in data]
Missing(d) == SelectSeq(required, LAMBDA f : ~PyIn(f, d))

CheckRequired(d) ==
    IF InRaises(d) THEN NotIterable(d)
    ELSE IF Missing(d) # <<>>
         THEN Raise("ValueError", "Missing fields : " \o PyReprList(Missing(d)))
         ELSE Pass

RECURSIVE CheckKeys(_, _, _)
\* for key in ("sku", "name", "qty", "unit_price"): if key not in it: raise
CheckKeys(i, it, keys) ==
    IF keys = <<>> THEN Pass
    ELSE IF InRaises(it) THEN NotIterable(it)
    ELSE IF ~PyIn(Head(keys), it)
         THEN Raise("ValueError",
                    "Items[" \o IntToStr(i) \o "] missing '" \o Head(keys) \o "'")
         ELSE CheckKeys(i, it, Tail(keys))

\* the body of the loop over enumerate(items); i is the 0-based index
CheckItem(i, it) ==
    LET k == CheckKeys(i, it, ItemKeys)
    IN  IF k # Pass THEN k
        ELSE IF GetItemRaises(it) THEN BadIndex(it)
        ELSE IF ~IsInstanceInt(it.d["qty"]) \/ Milli(it.d["qty"]) <= 0
             THEN Raise("ValueError",
                        "Item[" \o IntToStr(i) \o "].qty must be a positives integer")
        ELSE IF ~IsInstanceNumber(it.d["unit_price"]) \/ Milli(it.d["unit_price"]) <= 0
             THEN Raise("ValueError",
                        "Item[" \o IntToStr(i) \o "].unit_price must be non-negative number")
        ELSE Pass

RECURSIVE CheckItemsFrom(_, _)
CheckItemsFrom(items, i) ==
    IF i > Len(items) THEN Pass
    ELSE LET r == CheckItem(i - 1, items[i])
         IN  IF r # Pass THEN r ELSE CheckItemsFrom(items, i + 1)

CheckItems(d) ==
    IF GetItemRaises(d) THEN BadIndex(d)
    ELSE LET items == d.d["items"]
         IN  IF ~IsInstanceList(items) \/ Len(items.l) = 0
             THEN Raise("ValueError", Backtick \o "items" \o Backtick \o " must be a non-empty list")
             ELSE CheckItemsFrom(items.l, 1)

RECURSIVE CheckAddressFields(_, _)
CheckAddressFields(addr, fields) ==
    IF fields = <<>> THEN Pass
    ELSE IF ~PyIn(Head(fields), addr)
         THEN Raise("ValueError", Backtick \o "Shipping_address" \o Backtick \o " missing '" \o Head(fields) \o "'")
         ELSE CheckAddressFields(addr, Tail(fields))

CheckAddress(d) ==
    LET addr == d.d["shipping_address"]
    IN  IF ~IsInstanceDict(addr)
        THEN Raise("ValueError", Backtick \o "Shipping_address" \o Backtick \o " must be an object")
        ELSE CheckAddressFields(addr, AddressFields)

CheckPaymentMethod(d) ==
    IF ~IsInstanceStr(d.d["payment_method"])
    THEN Raise("ValueError", Backtick \o "payment_method" \o Backtick \o " must be a string")
    ELSE Pass

CheckTotalType(d) ==
    IF ~IsInstanceNumber(d.d["total_amount"])
    THEN Raise("ValueError", Backtick \o "total_amount" \o Backtick \o " must be a number")
    ELSE Pass

\* computed = sum(it["qty"]*["unit_price"] for it in items): each term is
\* the one-element list ["unit_price"] repeated qty times
Computed(items) ==
    PySum([i \in 1..Len(items) |->
              PyMul(items[i].d["qty"], JList(<<JStr("unit_price")>>))])

CheckTotal(d) ==
    LET computed == Computed(d.d["items"].l)
        total == d.d["total_amount"]
    IN  IF computed.t = "TypeError"
        THEN Raise("TypeError", "unsupported operand type(s) for +: 'int' and 'list'")
        ELSE IF Round2(Milli(computed)) # Round2(Milli(total))
             THEN Raise("ValueError",
                        "total_amount mismatch : expected " \o Fmt2f(Milli(computed))
                            \o ", got " \o FmtSpace2f(Milli(total)))
             ELSE Pass

\* the outcome of validate_payload(d): it returns True or raises
validate_payload(d) ==
    LET r1 == CheckRequired(d) IN
    IF r1 # Pass THEN r1 ELSE
    LET r2 == CheckItems(d) IN
    IF r2 # Pass THEN r2 ELSE
    LET r3 == CheckAddress(d) IN
    IF r3 # Pass THEN r3 ELSE
    LET r4 == CheckPaymentMethod(d) IN
    IF r4 # Pass THEN r4 ELSE
    LET r5 == CheckTotalType(d) IN
    IF r5 # Pass THEN r5 ELSE
    LET r6 == CheckTotal(d) IN
    IF r6 # Pass THEN r6 ELSE Returned

\* a mutant of PayloadAfterValidate: the validator enriches the payload it
\* was given, as stimulate_db_save does
PayloadAfterEnrich(d) ==
    IF d.t = "dict"
    THEN JDict([k \in DOMAIN d.d \cup {"processing_id"} |->
                   IF k = "processing_id" THEN JStr("uuid4") ELSE d.d[k]])
    ELSE d

\* the payload object after validate_payload(d): the function only reads it
PayloadAfterValidate(d) == d

----------------------------------------------------------------------------
(* simulate_db_save and order_event *)

\* simulate_db_save(data): logs data["order_id"] and returns True
simulate_db_save(d) == TRUE

\* request.get_json(silent=True): None when the body is absent or does not
\* parse, the decoded value otherwise (the JSON text null decodes to None)
get_json(body) == IF body.kind = "json" THEN body.value ELSE JNull

\* jsonify(...) wrapped by make_response(..., status)
Respond(status, body) ==
    [kind |-> "response", status |-> status, body |-> body, exc |-> ""]

\* an exception that leaves order_event uncaught
Escapes(exc) == [kind |-> "exception", status |-> 0, body |-> JNull, exc |-> exc]

ErrorBody(msg) == JDict([error |-> JStr(msg)])

\* the response dict built at step 3
SuccessBody(d) ==
    JDict([status |-> JStr("processed"),
           order_id |-> d.d["order_id"],
           items_count |-> JInt(Len(d.d["items"].l)),
           total_amount |-> d.d["total_amount"],
           payment_method |-> d.d["payment_method"],
           shipping_address |-> d.d["shipping_address"],
           message |-> JStr("Order received and stored.")])

\* order_event(request): what it produces and how often it called
\* simulate_db_save
order_event(req) ==
    IF req.method # "POST"
    THEN [out |-> Respond(405, ErrorBody("Use POST")), saves |-> 0]
    ELSE LET d == get_json(req.body) IN
    IF ~PyTruthy(d)
    THEN [out |-> Respond(400, ErrorBody("Invalid JSON")), saves |-> 0]
    ELSE LET v == validate_payload(d) IN
    IF v.kind = "raise" /\ v.exc = "ValueError"
    THEN [out |-> Respond(400, ErrorBody(v.msg)), saves |-> 0]
    ELSE IF v.kind = "raise"
    THEN [out |-> Escapes(v.exc), saves |-> 0]
    ELSE IF ~simulate_db_save(d)
    THEN [out |-> Respond(500, ErrorBody("Internal error")), saves |-> 1]
    ELSE [out |-> Respond(200, SuccessBody(d)), saves |-> 1]

----------------------------------------------------------------------------
(* Inputs *)

GoodAddress ==
    JDict([line1 |-> JStr("1 Rd"), city |-> JStr("X"), state |-> JStr("Y"),
           postal_code |-> JStr("0"), country |-> JStr("Z")])

Item(qty, price) ==
    JDict([sku |-> JStr("A"), name |-> JStr("Apple"), qty |-> qty, unit_price |-> price])

\* 2 x 1.50
GoodItem == Item(JInt(2), JFloat(1500))

\* 1 x 1.504, which rounds to 1.50
FineItem == Item(JInt(1), JFloat(1504))

ItemValues ==
    { GoodItem, FineItem,
      Item(JInt(0), JFloat(1500)),
      Item(JBool(TRUE), JFloat(1500)),
      Item(JInt(2), JBool(TRUE)),
      Item(JInt(2), JInt(0)),
      Item(JFloat(2000), JStr("1.50")),
      JDict([sku |-> JStr("A"), qty |-> JInt(0), unit_price |-> JFloat(1500)]),
      JInt(5),
      JList(<<JStr("sku"), JStr("name"), JStr("qty"), JStr("unit_price")>>) }

ItemLists == UNION { [1..n -> ItemValues] : n \in 0..MaxItems }

ItemsValues == { JList(l) : l \in ItemLists } \cup { JInt(1), GoodItem }

AddressValues ==
    { GoodAddress,
      JStr("1 Rd, X"),
      JDict([line1 |-> JStr("1 Rd"), state |-> JStr("Y"), postal_code |-> JStr("0")]) }

PaymentValues == { JStr("card"), JInt(7) }

TotalValues ==
    { JFloat(3000), JInt(3), JFloat(5000), JFloat(4504), JInt(6),
      JStr("3.00"), JBool(TRUE) }

\* scenario 1 of the specification
GoodPayload ==
    [order_id |-> JStr("O1"), customer_id |-> JStr("C1"),
     items |-> JList(<<GoodItem>>), order_date |-> JStr("2024-01-01"),
     shipping_address |-> GoodAddress, payment_method |-> JStr("card"),
     total_amount |-> JFloat(3000)]

\* every later rule violated at once
BadPayload ==
    [GoodPayload EXCEPT !.items = JList(<<>>), !.shipping_address = JStr("1 Rd, X"),
                        !.payment_method = JInt(7), !.total_amount = JStr("3.00")]

Restrict(f, S) == [k \in S |-> f[k]]

RequiredSet == { required[i] : i \in 1..Len(required) }

\* payloads with any subset of the top-level fields present
PartialPayloads ==
    { JDict(Restrict(base, S)) : S \in SUBSET RequiredSet, base \in {GoodPayload, BadPayload} }

\* payloads with every top-level field present
FullPayloads ==
    { JDict([GoodPayload EXCEPT !.items = its, !.shipping_address = a,
                                !.payment_method = pm, !.total_amount = tot]) :
        its \in ItemsValues, a \in AddressValues, pm \in PaymentValues, tot \in TotalValues }

Payloads == PartialPayloads \cup FullPayloads

JsonBody(v) == [kind |-> "json", value |-> v]

AbsentBody == [kind |-> "absent", value |-> JNull]

MalformedBody == [kind |-> "malformed", value |-> JNull]

\* decoded bodies that are not order objects
OtherJson ==
    { JNull, JBool(FALSE), JBool(TRUE), JInt(0), JInt(5), JFloat(0), JStr(""),
      JList(<<>>), JList(<<JInt(1)>>) }

Bodies ==
    { AbsentBody, MalformedBody } \cup { JsonBody(v) : v \in Payloads \cup OtherJson }

Requests ==
    { [method |-> "POST", body |-> b] : b \in Bodies }
        \cup { [method |-> m, body |-> b] :
                 m \in {"GET", "PUT"}, b \in {AbsentBody, JsonBody(JDict(GoodPayload))} }

NoData == JNull

NoRequest == [method |-> "", body |-> AbsentBody]

NoResponse == [kind |-> "none", status |-> 0, body |-> JNull, exc |-> ""]

----------------------------------------------------------------------------
(* The state machine: either a caller holds a payload and calls             *)
(* validate_payload on it, or an HTTP request is delivered to order_event.  *)

InitValidator ==
    /\ data0 \in Payloads
    /\ data = data0
    /\ results = <<>>
    /\ request = NoRequest
    /\ response = NoResponse
    /\ dbSaves = 0

InitHandler ==
    /\ data0 = NoData
    /\ data = NoData
    /\ results = <<>>
    /\ request \in Requests
    /\ response = NoResponse
    /\ dbSaves = 0

Init == InitValidator \/ InitHandler

\* one call validate_payload(data)
ValidatePayload ==
    /\ data # NoData
    /\ Len(results) < MaxCalls
    /\ results' = Append(results, validate_payload(data))
    /\ data' = PayloadAfterValidate(data)
    /\ UNCHANGED <<data0, request, response, dbSaves>>

\* one invocation order_event(request)
OrderEvent ==
    /\ request # NoRequest
    /\ response = NoResponse
    /\ response' = order_event(request).out
    /\ dbSaves' = dbSaves + order_event(request).saves
    /\ UNCHANGED <<data0, data, results, request>>

Next == ValidatePayload \/ OrderEvent

Spec == Init /\ [][Next]_vars

----------------------------------------------------------------------------
(* What the specification asks of a payload, stated on its own terms:      *)
(* a boolean is not a number, and the rules come in a fixed order.         *)

Called == Len(results) > 0

Handled == response.kind # "none"

PostedObject ==
    /\ Handled
    /\ request.method = "POST"
    /\ request.body.kind = "json"
    /\ request.body.value.t = "dict"

DeclaredFields ==
    <<"order_id", "customer_id", "items", "order_date",
      "shipping_address", "payment_method", "total_amount">>

MissingNames(p) == SelectSeq(DeclaredFields, LAMBDA f : f \notin DOMAIN p.d)

MissingReason(p) == "Missing fields : " \o PyReprList(MissingNames(p))

IsNumberValue(v) == v.t \in {"int", "float"}

IsIntegerValue(v) == v.t = "int"

BadQty(v) == ~IsIntegerValue(v) \/ Milli(v) <= 0

BadPrice(v) == ~IsNumberValue(v) \/ Milli(v) <= 0

GoodLineItem(it) ==
    /\ it.t = "dict"
    /\ {"sku", "name", "qty", "unit_price"} \subseteq DOMAIN it.d
    /\ ~BadQty(it.d["qty"])
    /\ ~BadPrice(it.d["unit_price"])

GoodItems(v) ==
    /\ v.t = "list"
    /\ Len(v.l) > 0
    /\ \A i \in 1..Len(v.l) : GoodLineItem(v.l[i])

GoodAddr(v) ==
    /\ v.t = "dict"
    /\ {"line1", "city", "state", "postal_code", "country"} \subseteq DOMAIN v.d

\* the payload passes steps 1 to 6 of the validation sequence
StepsOneToSix(p) ==
    /\ p.t = "dict"
    /\ MissingNames(p) = <<>>
    /\ GoodItems(p.d["items"])
    /\ GoodAddr(p.d["shipping_address"])
    /\ p.d["payment_method"].t = "str"
    /\ IsNumberValue(p.d["total_amount"])

RECURSIVE LineSum(_)
\* sum of qty * unit_price over good line items, in thousandths
LineSum(items) ==
    IF items = <<>> THEN 0
    ELSE Head(items).d["qty"].n * Milli(Head(items).d["unit_price"]) + LineSum(Tail(items))

TotalsAgree(p) == Round2(LineSum(p.d["items"].l)) = Round2(Milli(p.d["total_amount"]))

WellFormedOrder(p) == StepsOneToSix(p) /\ TotalsAgree(p)

MismatchReason(p) ==
    "total_amount mismatch : expected " \o Fmt2f(LineSum(p.d["items"].l))
        \o ", got " \o FmtSpace2f(Milli(p.d["total_amount"]))

\* a boolean stands where a number is expected
HasBooleanNumber(p) ==
    \/ "total_amount" \in DOMAIN p.d /\ p.d["total_amount"].t = "bool"
    \/ /\ "items" \in DOMAIN p.d
       /\ p.d["items"].t = "list"
       /\ \E i \in 1..Len(p.d["items"].l) :
            LET it == p.d["items"].l[i]
            IN  /\ it.t = "dict"
                /\ \/ "qty" \in DOMAIN it.d /\ it.d["qty"].t = "bool"
                   \/ "unit_price" \in DOMAIN it.d /\ it.d["unit_price"].t = "bool"

AllItemsObjects(p) ==
    ("items" \in DOMAIN p.d /\ p.d["items"].t = "list")
        => \A i \in 1..Len(p.d["items"].l) : p.d["items"].l[i].t = "dict"

\* the reasons of the rules item i (0-based) violates, in rule order
ItemViolations(i, it) ==
    LET absent == SelectSeq(<<"sku", "name", "qty", "unit_price">>,
                            LAMBDA k : k \notin DOMAIN it.d)
    IN  (IF absent = <<>> THEN <<>>
         ELSE <<"Items[" \o IntToStr(i) \o "] missing '" \o Head(absent) \o "'">>)
        \o (IF "qty" \in DOMAIN it.d /\ BadQty(it.d["qty"])
            THEN <<"Item[" \o IntToStr(i) \o "].qty must be a positives integer">>
            ELSE <<>>)
        \o (IF "unit_price" \in DOMAIN it.d /\ BadPrice(it.d["unit_price"])
            THEN <<"Item[" \o IntToStr(i) \o "].unit_price must be non-negative number">>
            ELSE <<>>)

RECURSIVE ItemsViolationsFrom(_, _)
ItemsViolationsFrom(items, i) ==
    IF i > Len(items) THEN <<>>
    ELSE ItemViolations(i - 1, items[i]) \o ItemsViolationsFrom(items, i + 1)

ItemsRuleViolations(p) ==
    IF "items" \notin DOMAIN p.d THEN <<>>
    ELSE IF p.d["items"].t # "list" \/ Len(p.d["items"].l) = 0
         THEN <<Backtick \o "items" \o Backtick \o " must be a non-empty list">>
         ELSE ItemsViolationsFrom(p.d["items"].l, 1)

AddressRuleViolations(p) ==
    IF "shipping_address" \notin DOMAIN p.d THEN <<>>
    ELSE IF p.d["shipping_address"].t # "dict"
         THEN <<Backtick \o "Shipping_address" \o Backtick \o " must be an object">>
         ELSE LET absent ==
                    SelectSeq(<<"line1", "city", "state", "postal_code", "country">>,
                              LAMBDA f : f \notin DOMAIN p.d["shipping_address"].d)
              IN  [j \in 1..Len(absent) |->
                      Backtick \o "Shipping_address" \o Backtick
                          \o " missing '" \o absent[j] \o "'"]

PaymentRuleViolations(p) ==
    IF "payment_method" \in DOMAIN p.d /\ p.d["payment_method"].t # "str"
    THEN <<Backtick \o "payment_method" \o Backtick \o " must be a string">>
    ELSE <<>>

TotalRuleViolations(p) ==
    IF "total_amount" \in DOMAIN p.d /\ ~IsNumberValue(p.d["total_amount"])
    THEN <<Backtick \o "total_amount" \o Backtick \o " must be a number">>
    ELSE <<>>

CrossCheckViolations(p) ==
    IF StepsOneToSix(p) /\ ~TotalsAgree(p) THEN <<MismatchReason(p)>> ELSE <<>>

\* the reasons of every rule payload p violates, in the fixed rule order
Violations(p) ==
    (IF MissingNames(p) # <<>> THEN <<MissingReason(p)>> ELSE <<>>)
        \o ItemsRuleViolations(p)
        \o AddressRuleViolations(p)
        \o PaymentRuleViolations(p)
        \o TotalRuleViolations(p)
        \o CrossCheckViolations(p)

----------------------------------------------------------------------------
(* Claims *)

\* C1: a POST whose body is a well-formed order (totals agreeing at two
\* decimals) is answered 200 with status "processed", items_count equal to
\* the number of items, and order_id, total_amount, payment_method and
\* shipping_address echoed from the input.
C1_WellFormedOrderProcessed ==
    (PostedObject /\ WellFormedOrder(request.body.value)) =>
        LET p == request.body.value.d
        IN  /\ response.kind = "response"
            /\ response.status = 200
            /\ response.body.t = "dict"
            /\ response.body.d["status"] = JStr("processed")
            /\ response.body.d["items_count"] = JInt(Len(p["items"].l))
            /\ response.body.d["order_id"] = p["order_id"]
            /\ response.body.d["total_amount"] = p["total_amount"]
            /\ response.body.d["payment_method"] = p["payment_method"]
            /\ response.body.d["shipping_address"] = p["shipping_address"]

\* C2: for a payload that passes steps 1 to 6, validate_payload returns
\* success when the rounded sum of qty * unit_price equals the rounded
\* total_amount, and otherwise raises the ValueError that names both values
\* to two decimals.
C2_TotalCrossCheck ==
    (Called /\ StepsOneToSix(data0)) =>
        IF TotalsAgree(data0)
        THEN results[1] = Returned
        ELSE results[1] = Raise("ValueError", MismatchReason(data0))

\* C3: every call of validate_payload on a decoded JSON object either
\* returns success or raises ValueError; it never ends with another error.
C3_SuccessOrValueError ==
    Called =>
        \/ results[1].kind = "return"
        \/ results[1].kind = "raise" /\ results[1].exc = "ValueError"

\* C4: a POST whose non-empty JSON object the validator does not accept is
\* answered 400 with {"error": <the validator's reason>}; the failure
\* neither escapes order_event nor reaches the persistence step.
C4_ValidationFailureIs400 ==
    (/\ PostedObject
     /\ PyTruthy(request.body.value)
     /\ validate_payload(request.body.value).kind = "raise") =>
        /\ response = Respond(400, ErrorBody(validate_payload(request.body.value).msg))
        /\ dbSaves = 0

\* C5: when required top-level fields are missing, validate_payload raises
\* ValueError before any other check, and the reason lists exactly the
\* missing field names, all of them, in their declared order.
C5_MissingFieldsListed ==
    (Called /\ MissingNames(data0) # <<>>) =>
        results[1] = Raise("ValueError", MissingReason(data0))

\* C5 witness: two fields are missing from a payload that also breaks the
\* items rule, and the call has been made.
C5_Witness ==
    /\ Called
    /\ MissingNames(data0) = <<"customer_id", "order_date">>
    /\ data0.d["items"] = JList(<<>>)
    /\ results[1].exc = "ValueError"

\* C6: a payload (its items all objects) whose total_amount, or an item's
\* qty or unit_price, is a boolean is rejected with a ValueError.
C6_BooleansRejected ==
    (Called /\ AllItemsObjects(data0) /\ HasBooleanNumber(data0)) =>
        (results[1].kind = "raise" /\ results[1].exc = "ValueError")

\* C7: for a POST, the answer 400 "Invalid JSON" is given to an absent or
\* unparseable body and never to a body that parses as a JSON object; such
\* an object goes to the validator, so one that misses required fields is
\* answered 400 with the reason naming every missing field.
C7_InvalidJsonOnlyWhenUnparsed ==
    (Handled /\ request.method = "POST") =>
        /\ request.body.kind \in {"absent", "malformed"}
             => response = Respond(400, ErrorBody("Invalid JSON"))
        /\ PostedObject
             => /\ response # Respond(400, ErrorBody("Invalid JSON"))
                /\ MissingNames(request.body.value) # <<>>
                     => response = Respond(400, ErrorBody(MissingReason(request.body.value)))

C10_EarliestViolationReported ==
    (Called /\ AllItemsObjects(data0) /\ Len(Violations(data0)) >= 2) =>
        results[1] = Raise("ValueError", Violations(data0)[1])

====
